---- MODULE Spec2Model ----
(***************************************************************************)
(* The connections reducer of the desktop app                              *)
(* (desktop/app/src/reducers/connections.tsx): the snapshot's fields are   *)
(* the variables, every reducer case is one action.  Devices and clients   *)
(* are objects owned by collaborators; the snapshot holds references to    *)
(* them, so they are modelled as object names with fixed attributes and a  *)
(* mutable `connected` flag.                                               *)
(***************************************************************************)
EXTENDS Integers, Sequences, FiniteSets, TLC

VARIABLES
    devices,              \* Array<BaseDevice>: sequence of device objects
    selectedDevice,       \* null | BaseDevice
    selectedPlugin,       \* null | string
    selectedAppId,        \* null | string
    userPreferredDevice,  \* null | string (a device title)
    userPreferredPlugin,  \* null | string
    userPreferredApp,     \* null | string (an app name)
    enabledPlugins,       \* {[client: string]: string[]}: function on the keys present
    enabledDevicePlugins, \* Set<string>
    clients,              \* Array<Client>: sequence of client objects
    uninitializedClients, \* UninitializedClient[]
    deepLinkPayload,      \* unknown
    staticView,           \* StaticView
    selectedAppPluginListRevision, \* number
    flipperServer,        \* FlipperServerImpl | undefined
    persisted,            \* the snapshot in persistent storage, before rehydration
    deviceConnected,      \* device object -> value of device.connected
    clientConnected,      \* client object -> value of client.connected
    last                  \* the action dispatched last and how the reducer left it

storeVars == <<devices, selectedDevice, selectedPlugin, selectedAppId,
               userPreferredDevice, userPreferredPlugin, userPreferredApp,
               enabledPlugins, enabledDevicePlugins, clients,
               uninitializedClients, deepLinkPayload, staticView,
               selectedAppPluginListRevision, flipperServer>>

vars == <<devices, selectedDevice, selectedPlugin, selectedAppId,
          userPreferredDevice, userPreferredPlugin, userPreferredApp,
          enabledPlugins, enabledDevicePlugins, clients,
          uninitializedClients, deepLinkPayload, staticView,
          selectedAppPluginListRevision, flipperServer, persisted,
          deviceConnected, clientConnected, last>>

----------------------------------------------------------------------------
(* JavaScript's null and undefined *)
Null == "null"
Undefined == "undefined"

(* x ?? y *)
Coalesce(x, y) == IF x = Null \/ x = Undefined THEN y ELSE x

----------------------------------------------------------------------------
(* Device objects.  d1 and d2 are two objects for the same physical device *)
(* (same serial: d2 is what a reconnect creates), d3 is the Metro bridge.  *)
DeviceObjs == {"d1", "d2", "d3"}

(* d4 is a Metro device imported from an archive: it is archived and never *)
(* connected.                                                              *)
ArchivedDeviceObjs == {"d4"}

serial(d) == CASE d = "d1" -> "s1"
               [] d = "d2" -> "s1"
               [] d = "d3" -> "s-metro"
               [] d = "d4" -> "s-archive"

title(d) == CASE d = "d1" -> "Pixel"
              [] d = "d2" -> "Pixel"
              [] d = "d3" -> "Metro"
              [] d = "d4" -> "Metro (imported)"

os(d) == CASE d = "d1" -> "Android"
           [] d = "d2" -> "Android"
           [] d = "d3" -> "Metro"
           [] d = "d4" -> "Metro"

isArchived(d) == d \in ArchivedDeviceObjs

(* BaseDevice.isConnected reads the connected atom *)
isConnected(d) == deviceConnected[d]

(* Client objects.  c1 and c3 carry the same id: c3 is app A connecting    *)
(* again once the device is back as d2.                                    *)
ClientObjs == {"c1", "c2", "c3"}

clientId(c) == CASE c = "c1" -> "A#s1"
                 [] c = "c2" -> "B#s1"
                 [] c = "c3" -> "A#s1"

queryApp(c) == CASE c = "c1" -> "A"
                 [] c = "c2" -> "B"
                 [] c = "c3" -> "A"

clientDevice(c) == CASE c = "c1" -> "d1"
                     [] c = "c2" -> "d1"
                     [] c = "c3" -> "d2"

queryDevice(c) == title(clientDevice(c))

supportsPlugin(c, p) == CASE c = "c1" -> p = "X"
                          [] c = "c2" -> FALSE
                          [] c = "c3" -> p \in {"X", "DeviceLogs"}

(* The ids an action may name: those of the client objects and one that no *)
(* client has.                                                             *)
AppIds == {clientId(c) : c \in ClientObjs}

----------------------------------------------------------------------------
DEFAULT_PLUGIN == "DeviceLogs"
DEFAULT_DEVICE_BLACKLIST == {"MacOS", "Metro", "Windows"}
WelcomeScreenStaticView == "WelcomeScreen"

canBeDefaultDevice(device) == os(device) \notin DEFAULT_DEVICE_BLACKLIST

(* Array.prototype.findIndex on the devices, 1-based, -1 when none *)
findIndexBySerial(devs, s) ==
    IF \E i \in 1..Len(devs) : serial(devs[i]) = s
    THEN CHOOSE i \in 1..Len(devs) :
            /\ serial(devs[i]) = s
            /\ \A j \in 1..(i - 1) : serial(devs[j]) # s
    ELSE -1

Range(s) == {s[i] : i \in 1..Len(s)}

----------------------------------------------------------------------------
Init ==
    /\ devices = <<>>
    /\ selectedDevice = Null
    /\ selectedAppId = Null
    /\ selectedPlugin = DEFAULT_PLUGIN
    /\ userPreferredDevice = Null
    /\ userPreferredPlugin = Null
    /\ userPreferredApp = Null
    /\ enabledPlugins = <<>>
    /\ enabledDevicePlugins =
          {"DeviceLogs", "CrashReporter", "MobileBuilds", "Hermesdebuggerrn", "React"}
    /\ clients = <<>>
    /\ uninitializedClients = <<>>
    /\ deepLinkPayload = Null
    /\ staticView = WelcomeScreenStaticView
    /\ selectedAppPluginListRevision = 0
    /\ flipperServer = Undefined
    /\ persisted = Null
    /\ deviceConnected =
          [d \in DeviceObjs \cup ArchivedDeviceObjs |-> d \notin ArchivedDeviceObjs]
    /\ clientConnected = [c \in ClientObjs |-> TRUE]
    /\ last = [type |-> "@@INIT", arg |-> Null, outcome |-> {}]

(* `last` names the action the store handled last, its payload and the     *)
(* branches the reducer took on it.                                        *)
Did(t, a, o) == last' = [type |-> t, arg |-> a, outcome |-> o]

----------------------------------------------------------------------------
(* case 'SELECT_DEVICE' *)
SelectDevice(payload) ==
    /\ staticView' = Null
    /\ selectedDevice' = payload
    /\ selectedAppId' = Null
    /\ userPreferredDevice' =
          IF payload # Null THEN title(payload) ELSE userPreferredDevice
    /\ Did("SELECT_DEVICE", payload, {"ok"})
    /\ UNCHANGED <<flipperServer, persisted,
                   devices, selectedPlugin, userPreferredPlugin, userPreferredApp,
                   enabledPlugins, enabledDevicePlugins, clients,
                   uninitializedClients, deepLinkPayload,
                   selectedAppPluginListRevision, deviceConnected, clientConnected>>

(* seq.find((c) => ...): the first element of seq among `matching`, the    *)
(* objects the callback holds of; undefined when there is none             *)
find(seq, matching) ==
    IF \E i \in 1..Len(seq) : seq[i] \in matching
    THEN seq[CHOOSE i \in 1..Len(seq) :
                /\ seq[i] \in matching
                /\ \A j \in 1..(i - 1) : seq[j] \notin matching]
    ELSE Undefined

(* client?.id ?? null *)
idOrNull(c) == IF c = Undefined THEN Null ELSE clientId(c)

(* newDevices without the replace in place: the payload is always pushed *)
newDevicesPushOnly(payload) == Append(devices, payload)

(* case 'REGISTER_DEVICE': the device list after the replace or the push *)
newDevices(payload) ==
    LET existing == findIndexBySerial(devices, serial(payload))
    IN  IF existing # -1
        THEN [devices EXCEPT ![existing] = payload]
        ELSE Append(devices, payload)

(* stillConnected without the check of the connected atom: never throws *)
stillConnectedUnchecked(payload) == FALSE

(* case 'REGISTER_DEVICE': the condition of the throw *)
stillConnected(payload) ==
    LET existing == findIndexBySerial(devices, serial(payload))
    IN  existing # -1 /\ deviceConnected[devices[existing]]

(* selectNewDevice without the userPreferredDevice disjunct *)
selectNewDeviceNoPreferred(payload) ==
    \/ selectedDevice = Null
    \/ ~isConnected(selectedDevice)

(* case 'REGISTER_DEVICE': const selectNewDevice *)
selectNewDevice(payload) ==
    \/ selectedDevice = Null
    \/ ~isConnected(selectedDevice)
    \/ userPreferredDevice = title(payload)

(* which of the three disjuncts of selectNewDevice held *)
registerTriggers(payload) ==
    {t \in {"none", "offline", "preferred"} :
        \/ t = "none" /\ selectedDevice = Null
        \/ t = "offline" /\ selectedDevice # Null /\ ~isConnected(selectedDevice)
        \/ t = "preferred" /\ userPreferredDevice = title(payload)}

(* appOnNewDevice without the look for a client of userPreferredApp *)
appOnNewDeviceFirstOnly(payload) ==
    idOrNull(find(clients, {c \in ClientObjs : clientDevice(c) = payload}))

(* case 'REGISTER_DEVICE': the app selected along with the new device *)
appOnNewDevice(payload) ==
    LET OnDeviceAndPreferred ==
            {c \in ClientObjs :
                clientDevice(c) = payload /\ queryApp(c) = userPreferredApp}
        OnDevice == {c \in ClientObjs : clientDevice(c) = payload}
        preferred == idOrNull(find(clients, OnDeviceAndPreferred))
    IN  IF preferred = Null
        THEN idOrNull(find(clients, OnDevice))
        ELSE preferred

RegisterDevice(payload) ==
    IF stillConnected(payload)
    THEN /\ Did("REGISTER_DEVICE", payload, {"threw"})
         /\ UNCHANGED <<storeVars, persisted, deviceConnected, clientConnected>>
    ELSE /\ devices' = newDevices(payload)
         /\ selectedDevice' =
               IF selectNewDevice(payload) THEN payload ELSE selectedDevice
         /\ selectedAppId' =
               IF selectNewDevice(payload) THEN appOnNewDevice(payload)
               ELSE selectedAppId
         /\ Did("REGISTER_DEVICE", payload,
                IF selectNewDevice(payload) THEN registerTriggers(payload)
                ELSE {"kept"})
         /\ UNCHANGED <<flipperServer, persisted,
                        selectedPlugin, userPreferredDevice, userPreferredPlugin,
                        userPreferredApp, enabledPlugins, enabledDevicePlugins,
                        clients, uninitializedClients, deepLinkPayload, staticView,
                        selectedAppPluginListRevision, deviceConnected,
                        clientConnected>>

(* resolveDevice falling back to the device selected already *)
resolveDeviceOrSelected(payload) ==
    LET client == find(clients, {c \in ClientObjs : clientId(c) = payload.selectedAppId})
    IN  Coalesce(payload.selectedDevice,
                 IF client = Undefined THEN selectedDevice ELSE clientDevice(client))

(* case 'SELECT_PLUGIN': action.payload.selectedDevice ?? client?.device *)
resolveDevice(payload) ==
    LET client == find(clients, {c \in ClientObjs : clientId(c) = payload.selectedAppId})
    IN  Coalesce(payload.selectedDevice,
                 IF client = Undefined THEN Undefined ELSE clientDevice(client))

(* a preferred app that is dropped when the payload names no client *)
preferredAppAfterOrNone(payload) ==
    LET client == find(clients, {c \in ClientObjs : clientId(c) = payload.selectedAppId})
    IN  IF client = Undefined THEN Null ELSE queryApp(client)

(* case 'SELECT_PLUGIN': clients.find(...)?.query.app ?? userPreferredApp *)
preferredAppAfter(payload) ==
    LET client == find(clients, {c \in ClientObjs : clientId(c) = payload.selectedAppId})
    IN  IF client = Undefined THEN userPreferredApp ELSE queryApp(client)

SelectPlugin(payload) ==
    LET device == resolveDevice(payload)
    IN  IF device = Undefined \/ device = Null
        THEN /\ Did("SELECT_PLUGIN", payload, {"noop"})
             /\ UNCHANGED <<storeVars, persisted, deviceConnected, clientConnected>>
        ELSE /\ staticView' = Null
             /\ selectedDevice' = device
             /\ userPreferredDevice' =
                   IF canBeDefaultDevice(device) THEN title(device)
                   ELSE userPreferredDevice
             /\ selectedAppId' = Coalesce(payload.selectedAppId, Null)
             /\ userPreferredApp' = preferredAppAfter(payload)
             /\ selectedPlugin' = payload.selectedPlugin
             /\ userPreferredPlugin' = payload.selectedPlugin
             /\ deepLinkPayload' = payload.deepLinkPayload
             /\ Did("SELECT_PLUGIN", payload, {"ok"})
             /\ UNCHANGED <<flipperServer, persisted,
                            devices, enabledPlugins, enabledDevicePlugins, clients,
                            uninitializedClients, selectedAppPluginListRevision,
                            deviceConnected, clientConnected>>

(* case 'NEW_CLIENT': the client list without the stale connection, plus the new one *)
newClients(payload) ==
    Append(SelectSeq(clients, LAMBDA client : clientId(client) # clientId(payload)),
           payload)

(* selectNewClient without the userPreferredApp disjunct *)
selectNewClientNoPreferred(payload) ==
    LET selected == find(clients, {c \in ClientObjs : clientId(c) = selectedAppId})
    IN  \/ selectedAppId = Null
        \/ (selected # Undefined /\ clientConnected[selected] = FALSE)

(* selectNewClient that looks only at whether an app is selected *)
selectNewClientIfNoneSelected(payload) == selectedAppId = Null

(* case 'NEW_CLIENT': const selectNewClient *)
selectNewClient(payload) ==
    LET selected == find(clients, {c \in ClientObjs : clientId(c) = selectedAppId})
    IN  \/ selectedAppId = Null
        \/ userPreferredApp = queryApp(payload)
        \/ (selected # Undefined /\ clientConnected[selected] = FALSE)

(* which of the three disjuncts of selectNewClient held *)
newClientTriggers(payload) ==
    LET selected == find(clients, {c \in ClientObjs : clientId(c) = selectedAppId})
    IN  {t \in {"none", "offline", "preferred"} :
            \/ t = "none" /\ selectedAppId = Null
            \/ t = "offline" /\ selected # Undefined /\ ~clientConnected[selected]
            \/ t = "preferred" /\ userPreferredApp = queryApp(payload)}

(* a filter that keeps a record only when both its device and its app differ *)
pendingAfterEither(payload) ==
    SelectSeq(uninitializedClients,
              LAMBDA c : /\ c.deviceName # queryDevice(payload)
                         /\ c.appName # queryApp(payload))

(* case 'NEW_CLIENT': uninitializedClients of the returned state *)
pendingAfter(payload) ==
    SelectSeq(uninitializedClients,
              LAMBDA c : \/ c.deviceName # queryDevice(payload)
                         \/ c.appName # queryApp(payload))

NewClient(payload) ==
    /\ selectedAppId' =
          IF selectNewClient(payload) THEN clientId(payload) ELSE selectedAppId
    /\ selectedDevice' =
          IF selectNewClient(payload) THEN clientDevice(payload) ELSE selectedDevice
    /\ clients' = newClients(payload)
    /\ uninitializedClients' = pendingAfter(payload)
    /\ Did("NEW_CLIENT", payload,
           (IF selectNewClient(payload) THEN newClientTriggers(payload)
            ELSE {"kept"})
           \cup (IF pendingAfter(payload) # uninitializedClients
                 THEN {"handshake completed"} ELSE {}))
    /\ UNCHANGED <<flipperServer, persisted,
                   devices, selectedPlugin, userPreferredDevice, userPreferredPlugin,
                   userPreferredApp, enabledPlugins, enabledDevicePlugins,
                   deepLinkPayload, staticView, selectedAppPluginListRevision,
                   deviceConnected, clientConnected>>

(* pluginForClient without the fall back to userPreferredPlugin *)
pluginForClientNoFallback(client) ==
    IF selectedPlugin # Null /\ supportsPlugin(client, selectedPlugin)
    THEN selectedPlugin
    ELSE Null

(* case 'SELECT_CLIENT': the selectedPlugin of the returned state *)
pluginForClient(client) ==
    IF selectedPlugin # Null /\ supportsPlugin(client, selectedPlugin)
    THEN selectedPlugin
    ELSE IF userPreferredPlugin # Null /\ supportsPlugin(client, userPreferredPlugin)
         THEN userPreferredPlugin
         ELSE Null

(* case 'SELECT_CLIENT' *)
SelectClient(payload) ==
    LET client == find(clients, {c \in ClientObjs : clientId(c) = payload})
    IN  IF client = Undefined
        THEN /\ Did("SELECT_CLIENT", payload, {"noop"})
             /\ UNCHANGED <<storeVars, persisted, deviceConnected, clientConnected>>
        ELSE /\ selectedAppId' = payload
             /\ selectedDevice' = clientDevice(client)
             /\ userPreferredDevice' = title(clientDevice(client))
             /\ userPreferredApp' = queryApp(client)
             /\ selectedPlugin' = pluginForClient(client)
             /\ Did("SELECT_CLIENT", payload,
                    IF pluginForClient(client) = Null THEN {"cleared"}
                    ELSE IF /\ selectedPlugin # Null
                            /\ supportsPlugin(client, selectedPlugin)
                         THEN {"kept"}
                         ELSE {"preferred"})
             /\ UNCHANGED <<flipperServer, persisted,
                            devices, userPreferredPlugin, enabledPlugins,
                            enabledDevicePlugins, clients, uninitializedClients,
                            deepLinkPayload, staticView,
                            selectedAppPluginListRevision, deviceConnected,
                            clientConnected>>

(* case 'CLIENT_REMOVED': clients.filter((client) => client.id !== payload) *)
clientsWithout(payload) ==
    SelectSeq(clients, LAMBDA client : clientId(client) # payload)

ClientRemoved(payload) ==
    /\ selectedAppId' = IF selectedAppId = payload THEN Null ELSE selectedAppId
    /\ clients' = clientsWithout(payload)
    /\ Did("CLIENT_REMOVED", payload,
           IF clientsWithout(payload) = clients THEN {"unknown id"} ELSE {"removed"})
    /\ UNCHANGED <<flipperServer, persisted,
                   devices, selectedDevice, selectedPlugin, userPreferredDevice,
                   userPreferredPlugin, userPreferredApp, enabledPlugins,
                   enabledDevicePlugins, uninitializedClients, deepLinkPayload,
                   staticView, selectedAppPluginListRevision, deviceConnected,
                   clientConnected>>

----------------------------------------------------------------------------
(* The collaborators that own the objects: a device or a client the store  *)
(* holds goes offline (its `connected` atom is set to false); the snapshot *)
(* is not touched.  Within the bounds of the model the objects that go     *)
(* offline are the first phone and the first connection of app A; d2 and   *)
(* c3 are what comes back afterwards.                                      *)
DisconnectingDevices == {"d1"}
DisconnectingClients == {"c1"}

DeviceDisconnected(d) ==
    /\ d \in Range(devices)
    /\ deviceConnected[d]
    /\ deviceConnected' = [deviceConnected EXCEPT ![d] = FALSE]
    /\ Did("@@device offline", d, {"ok"})
    /\ UNCHANGED <<storeVars, persisted, clientConnected>>

ClientDisconnected(c) ==
    /\ c \in Range(clients)
    /\ clientConnected[c]
    /\ clientConnected' = [clientConnected EXCEPT ![c] = FALSE]
    /\ Did("@@client offline", c, {"ok"})
    /\ UNCHANGED <<storeVars, persisted, deviceConnected>>

----------------------------------------------------------------------------
(* Plugin enabling.  enabledPlugins is an object keyed by app name: a key  *)
(* that was never written is absent (reads undefined), which is not the    *)
(* same snapshot as a key holding the empty list.                          *)
AppNames == {"A", "B"}
AppPluginIds == {"X", "Y", "Z"}
DevicePluginIds == {"X"}

(* draft.enabledPlugins[selectedApp] after `if (!...) ... = []` *)
pluginsOf(ep, selectedApp) ==
    IF selectedApp \in DOMAIN ep THEN ep[selectedApp] ELSE <<>>

withEntry(ep, selectedApp, plugins) ==
    [a \in DOMAIN ep \cup {selectedApp} |->
        IF a = selectedApp THEN plugins ELSE ep[a]]

(* plugins.indexOf(pluginId), 1-based, -1 when absent *)
indexOf(plugins, pluginId) ==
    IF \E i \in 1..Len(plugins) : plugins[i] = pluginId
    THEN CHOOSE i \in 1..Len(plugins) :
            /\ plugins[i] = pluginId
            /\ \A j \in 1..(i - 1) : plugins[j] # pluginId
    ELSE -1

(* pushIfAbsent without the indexOf test *)
pushAlways(plugins, pluginId) == Append(plugins, pluginId)

(* case 'SET_PLUGIN_ENABLED': if (idx === -1) plugins.push(pluginId) *)
pushIfAbsent(plugins, pluginId) ==
    IF indexOf(plugins, pluginId) = -1 THEN Append(plugins, pluginId) ELSE plugins

(* case 'SET_PLUGIN_DISABLED': if (idx !== -1) plugins.splice(idx, 1) *)
spliceIfPresent(plugins, pluginId) ==
    LET idx == indexOf(plugins, pluginId)
    IN  IF idx # -1
        THEN SubSeq(plugins, 1, idx - 1) \o SubSeq(plugins, idx + 1, Len(plugins))
        ELSE plugins

(* the enabledPlugins the SET_PLUGIN_ENABLED case produces from ep *)
enabledAfter(ep, pluginId, selectedApp) ==
    withEntry(ep, selectedApp, pushIfAbsent(pluginsOf(ep, selectedApp), pluginId))

(* the enabledPlugins the SET_PLUGIN_DISABLED case produces from ep *)
disabledAfter(ep, pluginId, selectedApp) ==
    withEntry(ep, selectedApp, spliceIfPresent(pluginsOf(ep, selectedApp), pluginId))

SetPluginEnabled(pluginId, selectedApp) ==
    /\ enabledPlugins' = enabledAfter(enabledPlugins, pluginId, selectedApp)
    /\ Did("SET_PLUGIN_ENABLED", <<pluginId, selectedApp>>,
           IF indexOf(pluginsOf(enabledPlugins, selectedApp), pluginId) = -1
           THEN {"pushed"} ELSE {"present"})
    /\ UNCHANGED <<flipperServer, persisted,
                   devices, selectedDevice, selectedPlugin, selectedAppId,
                   userPreferredDevice, userPreferredPlugin, userPreferredApp,
                   enabledDevicePlugins, clients, uninitializedClients,
                   deepLinkPayload, staticView, selectedAppPluginListRevision,
                   deviceConnected, clientConnected>>

SetDevicePluginEnabled(pluginId) ==
    /\ enabledDevicePlugins' = enabledDevicePlugins \cup {pluginId}
    /\ Did("SET_DEVICE_PLUGIN_ENABLED", pluginId, {"ok"})
    /\ UNCHANGED <<flipperServer, persisted,
                   devices, selectedDevice, selectedPlugin, selectedAppId,
                   userPreferredDevice, userPreferredPlugin, userPreferredApp,
                   enabledPlugins, clients, uninitializedClients,
                   deepLinkPayload, staticView, selectedAppPluginListRevision,
                   deviceConnected, clientConnected>>

SetPluginDisabled(pluginId, selectedApp) ==
    /\ enabledPlugins' = disabledAfter(enabledPlugins, pluginId, selectedApp)
    /\ Did("SET_PLUGIN_DISABLED", <<pluginId, selectedApp>>,
           IF indexOf(pluginsOf(enabledPlugins, selectedApp), pluginId) = -1
           THEN {"absent"} ELSE {"spliced"})
    /\ UNCHANGED <<flipperServer, persisted,
                   devices, selectedDevice, selectedPlugin, selectedAppId,
                   userPreferredDevice, userPreferredPlugin, userPreferredApp,
                   enabledDevicePlugins, clients, uninitializedClients,
                   deepLinkPayload, staticView, selectedAppPluginListRevision,
                   deviceConnected, clientConnected>>

SetDevicePluginDisabled(pluginId) ==
    /\ enabledDevicePlugins' = enabledDevicePlugins \ {pluginId}
    /\ Did("SET_DEVICE_PLUGIN_DISABLED", pluginId,
           IF pluginId \in enabledDevicePlugins THEN {"deleted"} ELSE {"absent"})
    /\ UNCHANGED <<flipperServer, persisted,
                   devices, selectedDevice, selectedPlugin, selectedAppId,
                   userPreferredDevice, userPreferredPlugin, userPreferredApp,
                   enabledPlugins, clients, uninitializedClients,
                   deepLinkPayload, staticView, selectedAppPluginListRevision,
                   deviceConnected, clientConnected>>

(* The revision counter is unbounded in the program; the model stops       *)
(* counting at MaxRevision.                                                *)
MaxRevision == 2

(* a counter that skips a revision on every change *)
revisionSkipping == selectedAppPluginListRevision + 2

(* case 'APP_PLUGIN_LIST_CHANGED': the counter of the returned state *)
revisionAfterChange == selectedAppPluginListRevision + 1

AppPluginListChanged ==
    /\ selectedAppPluginListRevision < MaxRevision
    /\ selectedAppPluginListRevision' = revisionAfterChange
    /\ Did("APP_PLUGIN_LIST_CHANGED", Null, {"ok"})
    /\ UNCHANGED <<flipperServer, persisted,
                   devices, selectedDevice, selectedPlugin, selectedAppId,
                   userPreferredDevice, userPreferredPlugin, userPreferredApp,
                   enabledPlugins, enabledDevicePlugins, clients,
                   uninitializedClients, deepLinkPayload, staticView,
                   deviceConnected, clientConnected>>

----------------------------------------------------------------------------
(* The remaining cases of the reducer *)

(* case 'SET_FLIPPER_SERVER' *)
SetFlipperServer(payload) ==
    /\ flipperServer' = payload
    /\ Did("SET_FLIPPER_SERVER", payload, {"ok"})
    /\ UNCHANGED <<devices, selectedDevice, selectedPlugin, selectedAppId,
                   userPreferredDevice, userPreferredPlugin, userPreferredApp,
                   enabledPlugins, enabledDevicePlugins, clients,
                   uninitializedClients, deepLinkPayload, staticView,
                   selectedAppPluginListRevision, persisted,
                   deviceConnected, clientConnected>>

(* case 'SET_STATIC_VIEW': the action carries payload and deepLinkPayload *)
SetStaticView(payload, link) ==
    /\ staticView' = payload
    /\ deepLinkPayload' = Coalesce(link, Null)
    /\ Did("SET_STATIC_VIEW", <<payload, link>>, {"ok"})
    /\ UNCHANGED <<devices, selectedDevice, selectedPlugin, selectedAppId,
                   userPreferredDevice, userPreferredPlugin, userPreferredApp,
                   enabledPlugins, enabledDevicePlugins, clients,
                   uninitializedClients, selectedAppPluginListRevision,
                   flipperServer, persisted, deviceConnected, clientConnected>>

(* case 'RESET_SUPPORT_FORM_V2_STATE' *)
ResetSupportForm ==
    /\ staticView' = Null
    /\ Did("RESET_SUPPORT_FORM_V2_STATE", Null, {"ok"})
    /\ UNCHANGED <<devices, selectedDevice, selectedPlugin, selectedAppId,
                   userPreferredDevice, userPreferredPlugin, userPreferredApp,
                   enabledPlugins, enabledDevicePlugins, clients,
                   uninitializedClients, deepLinkPayload,
                   selectedAppPluginListRevision, flipperServer, persisted,
                   deviceConnected, clientConnected>>

(* startSetup without the filter: the record is always appended *)
pendingWithAppended(payload) == Append(uninitializedClients, payload)

(* case 'START_CLIENT_SETUP': shallowEqual on records of primitive fields  *)
(* is equality of the records                                              *)
pendingWith(payload) ==
    Append(SelectSeq(uninitializedClients, LAMBDA existing : existing # payload),
           payload)

StartClientSetup(payload) ==
    /\ uninitializedClients' = pendingWith(payload)
    /\ Did("START_CLIENT_SETUP", payload,
           IF payload \in Range(uninitializedClients) THEN {"moved"} ELSE {"added"})
    /\ UNCHANGED <<devices, selectedDevice, selectedPlugin, selectedAppId,
                   userPreferredDevice, userPreferredPlugin, userPreferredApp,
                   enabledPlugins, enabledDevicePlugins, clients,
                   deepLinkPayload, staticView, selectedAppPluginListRevision,
                   flipperServer, persisted, deviceConnected, clientConnected>>

(* case 'REGISTER_PLUGINS': the device plugins are loaded into the device  *)
(* objects; the state is returned as it is                                 *)
RegisterPlugins ==
    /\ Did("REGISTER_PLUGINS", Null, {"ok"})
    /\ UNCHANGED <<storeVars, persisted, deviceConnected, clientConnected>>

(* default: an action of another reducer *)
OtherAction ==
    /\ Did("@@other", Null, {"ok"})
    /\ UNCHANGED <<storeVars, persisted, deviceConnected, clientConnected>>

(* The records of clients in the middle of their handshake *)
PendingRecords ==
    {[os |-> "Android", deviceName |-> "Pixel", appName |-> "A"],
     [os |-> "Android", deviceName |-> "Pixel", appName |-> "B"],
     [os |-> "iOS", deviceName |-> "Pixel", appName |-> "A"],
     [os |-> "Android", deviceName |-> "iPhone", appName |-> "A"]}

----------------------------------------------------------------------------
(* The payloads of SELECT_PLUGIN dispatched in Spec *)
SelectPluginPayloads ==
    [selectedPlugin : {"X"},
     selectedAppId : AppIds \cup {Null, Undefined},
     selectedDevice : DeviceObjs \cup {Null},
     deepLinkPayload : {Undefined}]

(* Devices, clients and the selection: the actions that read or write      *)
(* devices, clients, the selection and the sticky preferences.             *)
Next ==
    \/ \E d \in DeviceObjs \cup {Null} : SelectDevice(d)
    \/ \E d \in DeviceObjs : RegisterDevice(d)
    \/ \E p \in SelectPluginPayloads : SelectPlugin(p)
    \/ \E c \in ClientObjs : NewClient(c)
    \/ \E id \in AppIds : SelectClient(id)
    \/ \E id \in AppIds : ClientRemoved(id)
    \/ \E d \in DisconnectingDevices : DeviceDisconnected(d)
    \/ \E c \in DisconnectingClients : ClientDisconnected(c)

Spec == Init /\ [][Next]_vars

----------------------------------------------------------------------------
(* The selectors over the snapshot (createSelector memoizes them; what     *)
(* they return for a snapshot is the result function of its inputs).       *)

(* clients.find((c) => c.id === selectedApp) || null *)
getActiveClient ==
    LET c == find(clients, {c \in ClientObjs : clientId(c) = selectedAppId})
    IN  IF c = Undefined THEN Null ELSE c

(* devices.find((device) => device.os === 'Metro' && !device.isArchived) ?? null *)
getMetroDevice ==
    Coalesce(find(devices, {d \in DeviceObjs \cup ArchivedDeviceObjs :
                               os(d) = "Metro" /\ ~isArchived(d)}),
             Null)

(* getActiveDevice without the test against the metro device *)
getActiveDeviceOfClientFirst ==
    IF getActiveClient # Null
    THEN clientDevice(getActiveClient)
    ELSE selectedDevice

getActiveDevice ==
    IF selectedDevice # getMetroDevice
    THEN selectedDevice
    ELSE IF getActiveClient # Null
         THEN clientDevice(getActiveClient)
         ELSE selectedDevice

(* The devices, clients and SELECT_PLUGIN payloads of SpecSelectors: the   *)
(* phone, the Metro bridge, the archived Metro device, and two apps.       *)
SelectorDevices == {"d1", "d3", "d4"}
SelectorClients == {"c1", "c2"}
SelectorAppIds == {clientId(c) : c \in SelectorClients}

SelectorPluginPayloads ==
    [selectedPlugin : {"X"},
     selectedAppId : SelectorAppIds \cup {Null},
     selectedDevice : SelectorDevices \cup {Null},
     deepLinkPayload : {Undefined}]

NextSelectors ==
    \/ \E d \in SelectorDevices \cup {Null} : SelectDevice(d)
    \/ \E d \in SelectorDevices : RegisterDevice(d)
    \/ \E p \in SelectorPluginPayloads : SelectPlugin(p)
    \/ \E c \in SelectorClients : NewClient(c)
    \/ \E id \in SelectorAppIds : SelectClient(id)
    \/ \E id \in SelectorAppIds : ClientRemoved(id)

SpecSelectors == Init /\ [][NextSelectors]_vars

(* Every case of the reducer, each on a small set of payloads *)
AllPluginPayloads ==
    [selectedPlugin : {"X"},
     selectedAppId : {"A#s1", Null},
     selectedDevice : {"d1", Null},
     deepLinkPayload : {Undefined}]

NextAll ==
    \/ \E v \in {"server"} : SetFlipperServer(v)
    \/ \E v \in {"SupportForm"}, l \in {Undefined} : SetStaticView(v, l)
    \/ ResetSupportForm
    \/ \E d \in {"d1"} : SelectDevice(d)
    \/ \E d \in {"d1"} : RegisterDevice(d)
    \/ \E p \in AllPluginPayloads : SelectPlugin(p)
    \/ \E c \in {"c1", "c2"} : NewClient(c)
    \/ \E id \in {"A#s1", "B#s1"} : SelectClient(id)
    \/ \E id \in {"A#s1", "B#s1"} : ClientRemoved(id)
    \/ \E r \in {[os |-> "Android", deviceName |-> "Pixel", appName |-> "A"]} :
          StartClientSetup(r)
    \/ RegisterPlugins
    \/ \E p \in {"X"}, a \in {"A"} : SetPluginEnabled(p, a)
    \/ \E p \in {"X"} : SetDevicePluginEnabled(p)
    \/ \E p \in {"X"}, a \in {"A"} : SetPluginDisabled(p, a)
    \/ \E p \in {"X"} : SetDevicePluginDisabled(p)
    \/ AppPluginListChanged
    \/ OtherAction

SpecAll == Init /\ [][NextAll]_vars

(* Client handshakes: the actions that write uninitializedClients, and the *)
(* removal of clients                                                      *)
NextSetup ==
    \/ \E r \in PendingRecords : StartClientSetup(r)
    \/ \E c \in {"c1", "c2"} : NewClient(c)
    \/ \E id \in {"A#s1", "B#s1"} : ClientRemoved(id)

SpecSetup == Init /\ [][NextSetup]_vars

(* Persisted snapshots and their migrations. A snapshot is read field by   *)
(* field; a field it does not carry reads as undefined. The migrations     *)
(* only copy the values of the fields, which are named here by their       *)
(* serialized form.                                                        *)
EmptyPlugins == "{}"
InitialDevicePlugins == "[DeviceLogs,CrashReporter,MobileBuilds,Hermesdebuggerrn,React]"

PersistedSnapshots ==
    [userStarredPlugins : {Undefined, Null, "{A:[X]}"},
     userStarredDevicePlugins : {Undefined, "[X]"},
     enabledPlugins : {Undefined, Null, EmptyPlugins, "{A:[X]}", "{A:[Y]}"},
     enabledDevicePlugins : {Undefined, InitialDevicePlugins, "[X]", "[Y]"},
     userPreferredDevice : {Null, "Pixel"}]

(* persistMigrations[1] *)
migration1(state) ==
    [state EXCEPT
        !.enabledPlugins = Coalesce(state.userStarredPlugins, EmptyPlugins),
        !.enabledDevicePlugins =
            Coalesce(state.userStarredDevicePlugins, InitialDevicePlugins)]

(* a migration to version 2 that resets both fields *)
migration2Resetting(state) ==
    [state EXCEPT
        !.enabledPlugins = EmptyPlugins,
        !.enabledDevicePlugins = InitialDevicePlugins]

(* persistMigrations[2] *)
migration2(state) ==
    [state EXCEPT
        !.enabledPlugins = Coalesce(state.enabledPlugins, EmptyPlugins),
        !.enabledDevicePlugins =
            Coalesce(state.enabledDevicePlugins, InitialDevicePlugins)]

persistMigrations(version, state) ==
    IF version = 1 THEN migration1(state) ELSE migration2(state)

(* the snapshot carries both enabledPlugins and enabledDevicePlugins *)
CarriesEnabled(state) ==
    /\ state.enabledPlugins \notin {Null, Undefined}
    /\ state.enabledDevicePlugins \notin {Null, Undefined}

(* one migration is applied to the snapshot in storage, whatever its version *)
Migrate(version) ==
    /\ persisted' = persistMigrations(version, persisted)
    /\ Did("@@migrate", version,
           IF CarriesEnabled(persisted) THEN {"carried"} ELSE {"missing"})
    /\ UNCHANGED <<storeVars, deviceConnected, clientConnected>>

InitMigrate ==
    /\ persisted \in PersistedSnapshots
    /\ devices = <<>>
    /\ selectedDevice = Null
    /\ selectedAppId = Null
    /\ selectedPlugin = DEFAULT_PLUGIN
    /\ userPreferredDevice = Null
    /\ userPreferredPlugin = Null
    /\ userPreferredApp = Null
    /\ enabledPlugins = <<>>
    /\ enabledDevicePlugins =
          {"DeviceLogs", "CrashReporter", "MobileBuilds", "Hermesdebuggerrn", "React"}
    /\ clients = <<>>
    /\ uninitializedClients = <<>>
    /\ deepLinkPayload = Null
    /\ staticView = WelcomeScreenStaticView
    /\ selectedAppPluginListRevision = 0
    /\ flipperServer = Undefined
    /\ deviceConnected =
          [d \in DeviceObjs \cup ArchivedDeviceObjs |-> d \notin ArchivedDeviceObjs]
    /\ clientConnected = [c \in ClientObjs |-> TRUE]
    /\ last = [type |-> "@@INIT", arg |-> Null, outcome |-> {}]

NextMigrate ==
    \/ Migrate(1)
    \/ Migrate(2)

SpecMigrate == InitMigrate /\ [][NextMigrate]_vars

(* Plugin enabling: the actions that read or write enabledPlugins,         *)
(* enabledDevicePlugins and the revision counter.                          *)
NextPlugins ==
    \/ \E p \in AppPluginIds, a \in AppNames : SetPluginEnabled(p, a)
    \/ \E p \in AppPluginIds, a \in AppNames : SetPluginDisabled(p, a)
    \/ \E p \in DevicePluginIds : SetDevicePluginEnabled(p)
    \/ \E p \in DevicePluginIds : SetDevicePluginDisabled(p)
    \/ AppPluginListChanged

SpecPlugins == Init /\ [][NextPlugins]_vars

----------------------------------------------------------------------------
(* Properties                                                              *)

HasClientWithId(cls, id) == \E i \in 1..Len(cls) : clientId(cls[i]) = id

NoDuplicates(seq) ==
    \A i, j \in 1..Len(seq) : i # j => seq[i] # seq[j]

(* C1: in every reachable state no two entries of `clients` have the same  *)
(* id and no two entries of `devices` have the same serial.                *)
UniqueIdsAndSerials ==
    /\ \A i, j \in 1..Len(clients) :
          i # j => clientId(clients[i]) # clientId(clients[j])
    /\ \A i, j \in 1..Len(devices) :
          i # j => serial(devices[i]) # serial(devices[j])

(* C1, its case: d2 has just been registered over the offline d1 of the    *)
(* same serial, and c3 sits where the offline c1 of the same id was.       *)
ReplacedSameSerialAndId ==
    /\ last.type = "REGISTER_DEVICE" /\ last.arg = "d2" /\ last.outcome # {"threw"}
    /\ ~deviceConnected["d1"] /\ Len(devices) = 2
    /\ ~clientConnected["c1"] /\ "c3" \in Range(clients) /\ Len(clients) = 2

(* C2: in every reachable state selectedAppId is null or the id of a       *)
(* client present in `clients`.                                            *)
SelectedAppIdIsAClient ==
    selectedAppId = Null \/ HasClientWithId(clients, selectedAppId)

(* C3: in every reachable state the device of every client in `clients`    *)
(* is an element of `devices`.                                             *)
ClientDevicesAreRegistered ==
    \A i \in 1..Len(clients) : clientDevice(clients[i]) \in Range(devices)

(* C4: RegisterDevice(d) on a state whose `devices` holds a device of the  *)
(* same serial that reports itself connected throws, and the snapshot is   *)
(* what it was before the action, in every field.                          *)
RegisterWhileConnectedThrows ==
    [][\A d \in DeviceObjs :
          (/\ last'.type = "REGISTER_DEVICE"
           /\ last'.arg = d
           /\ \E i \in 1..Len(devices) :
                 serial(devices[i]) = serial(d) /\ deviceConnected[devices[i]])
          => (last'.outcome = {"threw"} /\ UNCHANGED storeVars)]_vars

(* C4, its case: d1 registered a second time while the registered d1 is    *)
(* connected.                                                              *)
RegisteredTwiceWhileConnected ==
    /\ last = [type |-> "REGISTER_DEVICE", arg |-> "d1", outcome |-> {"threw"}]
    /\ devices = <<"d1">> /\ deviceConnected["d1"] /\ selectedDevice = "d1"

(* C5: in every reachable state userPreferredDevice is not the title of a  *)
(* device whose OS is on the default-device block-list.                    *)
PreferredDeviceNotBlockListed ==
    \A d \in DeviceObjs :
        os(d) \in DEFAULT_DEVICE_BLACKLIST => userPreferredDevice # title(d)

(* C6: after a RegisterDevice(d) that did not throw, selectedDevice is d   *)
(* if before it no device was selected, or the selected device was         *)
(* disconnected, or userPreferredDevice was d's title; otherwise           *)
(* selectedDevice and selectedAppId are what they were.                    *)
RegisterDeviceSelects ==
    [][\A d \in DeviceObjs :
          (/\ last'.type = "REGISTER_DEVICE"
           /\ last'.arg = d
           /\ last'.outcome # {"threw"})
          => IF \/ selectedDevice = Null
                \/ ~deviceConnected[selectedDevice]
                \/ userPreferredDevice = title(d)
             THEN selectedDevice' = d
             ELSE selectedDevice' = selectedDevice /\ selectedAppId' = selectedAppId
      ]_vars

(* C6, its case: while the connected Metro device was selected, d2 was     *)
(* registered and took the selection on its title alone.                   *)
RegisteredPreferredDevice ==
    /\ last = [type |-> "REGISTER_DEVICE", arg |-> "d2", outcome |-> {"preferred"}]
    /\ selectedDevice = "d2" /\ userPreferredDevice = "Pixel"
    /\ "d3" \in Range(devices)

(* C7: after NewClient(c), selectedAppId is c's id if before it no app was *)
(* selected, or the selected app's client was disconnected, or             *)
(* userPreferredApp was c's app name; otherwise selectedAppId is what it   *)
(* was.                                                                    *)
NewClientSelects ==
    [][\A c \in ClientObjs :
          (last'.type = "NEW_CLIENT" /\ last'.arg = c)
          => IF \/ selectedAppId = Null
                \/ \E i \in 1..Len(clients) :
                      /\ clientId(clients[i]) = selectedAppId
                      /\ ~clientConnected[clients[i]]
                \/ userPreferredApp = queryApp(c)
             THEN selectedAppId' = clientId(c)
             ELSE selectedAppId' = selectedAppId
      ]_vars

(* C7, its case: app B is the preferred one; c2 of app B arrived while the *)
(* connected c1 of app A was selected, and took the selection.             *)
NewClientOfPreferredApp ==
    /\ last = [type |-> "NEW_CLIENT", arg |-> "c2", outcome |-> {"preferred"}]
    /\ selectedAppId = "B#s1" /\ userPreferredApp = "B"
    /\ clients = <<"c1", "c2">> /\ clientConnected["c1"]

(* C8: a SelectPlugin that gives no selectedDevice and whose selectedAppId *)
(* is null or names no client in `clients` leaves every field of the       *)
(* snapshot as it was.                                                     *)
SelectPluginWithoutDeviceIsNoop ==
    [][(/\ last'.type = "SELECT_PLUGIN"
        /\ last'.arg.selectedDevice = Null
        /\ \/ last'.arg.selectedAppId \in {Null, Undefined}
           \/ ~HasClientWithId(clients, last'.arg.selectedAppId))
       => UNCHANGED storeVars]_vars

(* C8, its case: with a device selected and c1 connected, SelectPlugin     *)
(* named the id of app B, which no client has, and no device.              *)
SelectPluginResolvedNothing ==
    /\ last.type = "SELECT_PLUGIN" /\ last.outcome = {"noop"}
    /\ last.arg.selectedAppId = "B#s1" /\ last.arg.selectedDevice = Null
    /\ selectedDevice = "d1" /\ clients = <<"c1">>

(* C9: after ClientRemoved(id) no client of `clients` has that id and the  *)
(* others are kept in order; selectedAppId is null if it was id and is     *)
(* otherwise what it was; for an id that no client has, the snapshot is    *)
(* left as it was.                                                         *)
ClientRemovedEffect ==
    [][last'.type = "CLIENT_REMOVED"
       => LET id == last'.arg
          IN  /\ ~HasClientWithId(clients', id)
              /\ clients' = SelectSeq(clients, LAMBDA c : clientId(c) # id)
              /\ selectedAppId' = IF selectedAppId = id THEN Null ELSE selectedAppId
              /\ ~HasClientWithId(clients, id) => UNCHANGED storeVars
      ]_vars

(* The lists of plugin ids the idempotence of C10 is tried on *)
MaxPluginListLen == 3

PluginLists ==
    UNION {[1..n -> AppPluginIds] : n \in 0..MaxPluginListLen}

(* C10: enabling plugin p for app a twice gives the same enabledPlugins[a] *)
(* as enabling it once, whatever list was there; the entries already       *)
(* there keep their order; and in every reachable state no list of         *)
(* enabledPlugins holds a plugin id twice.                                 *)
SetPluginEnabledIdempotent ==
    /\ \A a \in DOMAIN enabledPlugins : NoDuplicates(enabledPlugins[a])
    /\ \A p \in AppPluginIds, a \in AppNames :
          LET before == pluginsOf(enabledPlugins, a)
              once == enabledAfter(enabledPlugins, p, a)
              twice == enabledAfter(once, p, a)
          IN  /\ twice[a] = once[a]
              /\ \A b \in DOMAIN once \ {a} : twice[b] = once[b]
              /\ SubSeq(once[a], 1, Len(before)) = before
    /\ \A l \in PluginLists, p \in AppPluginIds :
          /\ pushIfAbsent(pushIfAbsent(l, p), p) = pushIfAbsent(l, p)
          /\ SubSeq(pushIfAbsent(l, p), 1, Len(l)) = l

(* C10, its case: a plugin enabled again for an app that has all three     *)
(* enabled.                                                                *)
EnabledAgain ==
    /\ last.type = "SET_PLUGIN_ENABLED" /\ last.outcome = {"present"}
    /\ last.arg[2] = "A" /\ "A" \in DOMAIN enabledPlugins
    /\ Len(enabledPlugins["A"]) = 3 /\ enabledPlugins["A"][1] = last.arg[1]

(* C11: disabling a plugin that is not enabled returns the input state:    *)
(* SetPluginDisabled(p, a) where p is not in enabledPlugins[a], also when  *)
(* enabledPlugins has no entry for a, and SetDevicePluginDisabled(p) where *)
(* p is not in enabledDevicePlugins, leave every field as it was.          *)
DisablingAbsentIsNoop ==
    [][/\ (/\ last'.type = "SET_PLUGIN_DISABLED"
           /\ last'.arg[1] \notin Range(pluginsOf(enabledPlugins, last'.arg[2])))
          => UNCHANGED storeVars
       /\ (/\ last'.type = "SET_DEVICE_PLUGIN_DISABLED"
           /\ last'.arg \notin enabledDevicePlugins)
          => UNCHANGED storeVars
      ]_vars

(* C12: SelectClient(id) leaves the state as it was when no client of      *)
(* `clients` has that id; otherwise selectedAppId is id, selectedDevice    *)
(* the client's device, userPreferredDevice that device's title,           *)
(* userPreferredApp the client's app name, and selectedPlugin the current  *)
(* selectedPlugin if the client supports it, else userPreferredPlugin if   *)
(* the client supports that, else null.                                    *)
SelectClientEffect ==
    [][last'.type = "SELECT_CLIENT"
       => LET id == last'.arg
          IN  IF ~HasClientWithId(clients, id)
              THEN UNCHANGED storeVars
              ELSE \E i \in 1..Len(clients) :
                      /\ clientId(clients[i]) = id
                      /\ selectedAppId' = id
                      /\ selectedDevice' = clientDevice(clients[i])
                      /\ userPreferredDevice' = title(clientDevice(clients[i]))
                      /\ userPreferredApp' = queryApp(clients[i])
                      /\ selectedPlugin' =
                            CASE /\ selectedPlugin # Null
                                 /\ supportsPlugin(clients[i], selectedPlugin)
                                   -> selectedPlugin
                              [] /\ ~(/\ selectedPlugin # Null
                                      /\ supportsPlugin(clients[i], selectedPlugin))
                                 /\ userPreferredPlugin # Null
                                 /\ supportsPlugin(clients[i], userPreferredPlugin)
                                   -> userPreferredPlugin
                              [] OTHER -> Null
      ]_vars

(* C12, its case: c1, which supports X, was selected when no plugin was    *)
(* selected, and the preferred plugin X came back.                         *)
SelectedClientGotPreferredPlugin ==
    /\ last = [type |-> "SELECT_CLIENT", arg |-> "A#s1", outcome |-> {"preferred"}]
    /\ selectedPlugin = "X" /\ userPreferredPlugin = "X"
    /\ selectedAppId = "A#s1" /\ selectedDevice = "d1"
    /\ userPreferredApp = "A" /\ userPreferredDevice = "Pixel"

(* C13: after a SelectPlugin that resolves a device, deepLinkPayload is    *)
(* the payload's deepLinkPayload, and null when the payload carries none:  *)
(* it is never undefined.                                                  *)
SelectPluginRecordsDeepLink ==
    [][(last'.type = "SELECT_PLUGIN" /\ last'.outcome = {"ok"})
       => /\ deepLinkPayload' = Coalesce(last'.arg.deepLinkPayload, Null)
          /\ deepLinkPayload' # Undefined
      ]_vars

(* C14: the activeDevice selector returns selectedDevice whenever          *)
(* selectedDevice is not the metro device, also when selectedDevice is     *)
(* null and there is no metro device; when selectedDevice is the metro     *)
(* device it returns the active client's device if there is an active     *)
(* client and selectedDevice otherwise.                                    *)
ActiveDeviceSelector ==
    /\ selectedDevice # getMetroDevice => getActiveDevice = selectedDevice
    /\ (selectedDevice = Null /\ getMetroDevice = Null)
          => getActiveDevice = selectedDevice
    /\ (selectedDevice = getMetroDevice /\ getMetroDevice # Null)
          => getActiveDevice =
                IF HasClientWithId(clients, selectedAppId)
                THEN clientDevice(getActiveClient)
                ELSE selectedDevice

(* C14, its case: the Metro bridge, registered after the archived Metro    *)
(* device, is selected while app A's client on the phone is the active     *)
(* client: the active device is the phone.                                 *)
MetroSelectedWithActiveClient ==
    /\ devices = <<"d4", "d3">>
    /\ selectedDevice = "d3" /\ getMetroDevice = "d3"
    /\ selectedAppId = "A#s1" /\ getActiveClient = "c1"
    /\ getActiveDevice = "d1"

(* C15: selectedAppPluginListRevision only grows: APP_PLUGIN_LIST_CHANGED  *)
(* raises it by exactly one, and every other action of the reducer leaves  *)
(* it as it was, so no step ever lowers it.                                *)
RevisionMonotone ==
    [][/\ last'.type = "APP_PLUGIN_LIST_CHANGED" =>
            selectedAppPluginListRevision' = selectedAppPluginListRevision + 1
       /\ last'.type # "APP_PLUGIN_LIST_CHANGED" =>
            selectedAppPluginListRevision' = selectedAppPluginListRevision
       /\ selectedAppPluginListRevision' >= selectedAppPluginListRevision]_vars

(* the counter was raised twice and another action ran since *)
RevisionRaisedTwice ==
    /\ selectedAppPluginListRevision >= 2
    /\ last.type \notin {"APP_PLUGIN_LIST_CHANGED", "@@INIT"}

MatchesQuery(r, c) == r.deviceName = queryDevice(c) /\ r.appName = queryApp(c)

(* C16: after NEW_CLIENT of client c no pending record has the device name *)
(* and app name of c's query, and the pending records that do not match c  *)
(* are all kept, unchanged and in their order.                             *)
NewClientCompletesHandshake ==
    [][last'.type = "NEW_CLIENT" =>
         /\ \A r \in Range(uninitializedClients') : ~MatchesQuery(r, last'.arg)
         /\ uninitializedClients' =
               SelectSeq(uninitializedClients,
                         LAMBDA r : ~MatchesQuery(r, last'.arg))]_vars

(* a client completed a handshake while two other handshakes were pending *)
HandshakeCompletedOthersPending ==
    /\ last.type = "NEW_CLIENT"
    /\ "handshake completed" \in last.outcome
    /\ Len(uninitializedClients) >= 2

(* C20: in every reachable state uninitializedClients holds no two equal   *)
(* records; START_CLIENT_SETUP of a record r leaves exactly one record     *)
(* equal to r, also when one was already pending, and keeps every record   *)
(* that differs from r, in its order.                                      *)
PendingRecordsDistinct ==
    /\ [](NoDuplicates(uninitializedClients))
    /\ [][last'.type = "START_CLIENT_SETUP" =>
            /\ Cardinality({i \in DOMAIN uninitializedClients' :
                               uninitializedClients'[i] = last'.arg}) = 1
            /\ SelectSeq(uninitializedClients', LAMBDA r : r # last'.arg)
                 = SelectSeq(uninitializedClients, LAMBDA r : r # last'.arg)]_vars

(* a handshake was started again while it and another one were pending *)
StartedSetupAgain ==
    /\ last.type = "START_CLIENT_SETUP"
    /\ last.outcome = {"moved"}
    /\ Len(uninitializedClients) >= 2

(* the position of the first client in `clients` that is on device d and,  *)
(* when app is not null, is of that app; 0 when there is none              *)
FirstClientOn(d, app) ==
    LET at == {i \in 1..Len(clients) :
                  /\ clientDevice(clients[i]) = d
                  /\ app # Null => queryApp(clients[i]) = app}
    IN  IF at = {} THEN 0 ELSE CHOOSE i \in at : \A j \in at : i <= j

(* C19: when a RegisterDevice(d) moves the device selection to d (no       *)
(* device was selected, the selected one was disconnected, or d has the    *)
(* preferred title), selectedAppId becomes the id of the first client on d *)
(* of app userPreferredApp, else the id of the first client on d, else     *)
(* null, whatever it was before.                                           *)
RegisterDeviceRederivesApp ==
    [][\A d \in DeviceObjs :
          (/\ last'.type = "REGISTER_DEVICE"
           /\ last'.arg = d
           /\ last'.outcome # {"threw"}
           /\ \/ selectedDevice = Null
              \/ ~deviceConnected[selectedDevice]
              \/ userPreferredDevice = title(d))
          => selectedAppId' =
                IF userPreferredApp # Null /\ FirstClientOn(d, userPreferredApp) # 0
                THEN clientId(clients[FirstClientOn(d, userPreferredApp)])
                ELSE IF FirstClientOn(d, Null) # 0
                     THEN clientId(clients[FirstClientOn(d, Null)])
                     ELSE Null
      ]_vars

(* d1 took the selection while c1 of app A and c2 of the preferred app B,  *)
(* in this order, were on it: the app selected is B, not the first one     *)
RegisteredDeviceOfPreferredApp ==
    /\ last.type = "REGISTER_DEVICE" /\ last.arg = "d1"
    /\ last.outcome \notin {{"threw"}, {"kept"}}
    /\ clients = <<"c1", "c2">> /\ userPreferredApp = "B"
    /\ selectedDevice = "d1" /\ selectedAppId = "B#s1"

(* the device a SELECT_PLUGIN payload resolves to: the one it carries,     *)
(* else the device of the first client with the payload's app id           *)
ResolvedDevice(p) ==
    IF p.selectedDevice \notin {Null, Undefined} THEN p.selectedDevice
    ELSE clientDevice(clients[CHOOSE i \in 1..Len(clients) :
                                 /\ clientId(clients[i]) = p.selectedAppId
                                 /\ \A j \in 1..(i - 1) :
                                       clientId(clients[j]) # p.selectedAppId])

(* what a SELECT_PLUGIN that resolved a device does to every field but     *)
(* userPreferredApp                                                        *)
SelectPluginSetsSelection(p) ==
    /\ userPreferredPlugin' = p.selectedPlugin
    /\ userPreferredDevice' =
          IF os(ResolvedDevice(p)) \in DEFAULT_DEVICE_BLACKLIST
          THEN userPreferredDevice
          ELSE title(ResolvedDevice(p))
    /\ staticView' = Null
    /\ selectedDevice' = ResolvedDevice(p)
    /\ selectedAppId' = (IF p.selectedAppId = Undefined THEN Null ELSE p.selectedAppId)
    /\ selectedPlugin' = p.selectedPlugin

(* C18 as the claim states it: after a SelectPlugin that resolves a device *)
(* userPreferredPlugin is the payload's plugin, userPreferredApp is always *)
(* the app of the payload's selectedAppId (none when it names no client),  *)
(* userPreferredDevice is the resolved device's title only if it can be a  *)
(* default device, staticView is null and the selection is the resolved    *)
(* one.                                                                    *)
SelectPluginAlwaysSetsPreferredApp ==
    [][(last'.type = "SELECT_PLUGIN" /\ last'.outcome = {"ok"})
       => /\ SelectPluginSetsSelection(last'.arg)
          /\ userPreferredApp' =
                IF HasClientWithId(clients, last'.arg.selectedAppId)
                THEN queryApp(CHOOSE c \in Range(clients) :
                                  clientId(c) = last'.arg.selectedAppId)
                ELSE Null
      ]_vars

(* C18, amended: as above, but userPreferredApp becomes the app of the     *)
(* client the payload's selectedAppId names when there is one, and is left *)
(* as it was when the payload names no client.                             *)
SelectPluginSetsPreferences ==
    [][(last'.type = "SELECT_PLUGIN" /\ last'.outcome = {"ok"})
       => /\ SelectPluginSetsSelection(last'.arg)
          /\ userPreferredApp' =
                IF HasClientWithId(clients, last'.arg.selectedAppId)
                THEN queryApp(CHOOSE c \in Range(clients) :
                                  clientId(c) = last'.arg.selectedAppId)
                ELSE userPreferredApp
      ]_vars

(* a plugin was selected on the Metro device with no app: the preferred    *)
(* app and the preferred device are the ones of an earlier selection       *)
SelectedPluginOnMetroKeptPreferences ==
    /\ last.type = "SELECT_PLUGIN" /\ last.outcome = {"ok"}
    /\ last.arg.selectedAppId = Null /\ last.arg.selectedDevice = "d3"
    /\ selectedDevice = "d3" /\ selectedAppId = Null
    /\ userPreferredApp = "A" /\ userPreferredDevice = "Pixel"
    /\ userPreferredPlugin = "X" /\ staticView = Null

(* C17 as the claim states it: a migration, of version 1 or 2, applied to  *)
(* a snapshot that carries enabledPlugins and enabledDevicePlugins leaves  *)
(* these two fields and every other field as they were.                    *)
MigrationsNeverOverwrite ==
    [][(last'.type = "@@migrate" /\ CarriesEnabled(persisted))
       => persisted' = persisted]_vars

OtherFieldsKept(old, new) ==
    /\ new.userStarredPlugins = old.userStarredPlugins
    /\ new.userStarredDevicePlugins = old.userStarredDevicePlugins
    /\ new.userPreferredDevice = old.userPreferredDevice

(* C17, amended: migration 2 leaves a snapshot that carries both fields as *)
(* it was and fills a missing one with its default; migration 1 sets both  *)
(* fields from userStarredPlugins and userStarredDevicePlugins (the        *)
(* defaults when these are missing), whatever the fields held, and applied *)
(* again to its own result changes nothing; both keep every other field.   *)
MigrationsDefaultOrCopy ==
    [][last'.type = "@@migrate" =>
         /\ OtherFieldsKept(persisted, persisted')
         /\ last'.arg = 2 =>
               /\ CarriesEnabled(persisted) => persisted' = persisted
               /\ persisted'.enabledPlugins =
                     (IF persisted.enabledPlugins \in {Null, Undefined}
                      THEN EmptyPlugins ELSE persisted.enabledPlugins)
               /\ persisted'.enabledDevicePlugins =
                     (IF persisted.enabledDevicePlugins \in {Null, Undefined}
                      THEN InitialDevicePlugins ELSE persisted.enabledDevicePlugins)
         /\ last'.arg = 1 =>
               /\ persisted'.enabledPlugins =
                     (IF persisted.userStarredPlugins \in {Null, Undefined}
                      THEN EmptyPlugins ELSE persisted.userStarredPlugins)
               /\ persisted'.enabledDevicePlugins =
                     (IF persisted.userStarredDevicePlugins \in {Null, Undefined}
                      THEN InitialDevicePlugins
                      ELSE persisted.userStarredDevicePlugins)
               /\ persistMigrations(1, persisted') = persisted'
      ]_vars

(* migration 2 ran on a snapshot that carried both fields, with values     *)
(* that are not the defaults                                               *)
MigratedAgain ==
    /\ last.type = "@@migrate" /\ last.arg = 2 /\ last.outcome = {"carried"}
    /\ persisted.enabledPlugins = "{A:[Y]}"
    /\ persisted.enabledDevicePlugins = "[Y]"

(* C21: userPreferredDevice, userPreferredApp and userPreferredPlugin are  *)
(* changed by no action other than SELECT_DEVICE, SELECT_PLUGIN and        *)
(* SELECT_CLIENT: registering devices, clients arriving and leaving,       *)
(* handshakes, static views, plugin enabling and disabling and the         *)
(* revision counter leave them as they were. So once SELECT_CLIENT made A  *)
(* the preferred app, a NEW_CLIENT of app A takes the selection back, also *)
(* while a connected client of another app is selected.                    *)
PreferencesSurviveChurn ==
    [][/\ last'.type \notin {"SELECT_DEVICE", "SELECT_PLUGIN", "SELECT_CLIENT"} =>
            /\ userPreferredDevice' = userPreferredDevice
            /\ userPreferredApp' = userPreferredApp
            /\ userPreferredPlugin' = userPreferredPlugin
       /\ \A c \in ClientObjs :
             (/\ last'.type = "NEW_CLIENT"
              /\ last'.arg = c
              /\ userPreferredApp = queryApp(c))
             => /\ selectedAppId' = clientId(c)
                /\ selectedDevice' = clientDevice(c)
      ]_vars

(* c1 of the preferred app A came back while c2 of app B, which had taken  *)
(* the selection after c1 was removed, was selected and connected: c1 is   *)
(* selected again, on the preference alone                                 *)
PreferredAppCameBack ==
    /\ last = [type |-> "NEW_CLIENT", arg |-> "c1", outcome |-> {"preferred"}]
    /\ clients = <<"c2", "c1">>
    /\ userPreferredApp = "A" /\ userPreferredDevice = "Pixel"
    /\ selectedAppId = "A#s1" /\ selectedDevice = "d1"

====
